---- MODULE Spec2Model ----
(***************************************************************************)
(* Model of the test-execution sandbox (pipelines/pytest_executor.py) and  *)
(* the iterative-repair orchestrator                                        *)
(* (pipelines/batch_mbpp_iterative_repair.py).                              *)
(*                                                                         *)
(* Text is modelled structurally: a line of output is a sequence of words  *)
(* (the line is the words joined by single spaces), an output is a         *)
(* non-empty sequence of lines (str.split('\n') never returns an empty     *)
(* list).  Substring tests of the code ("PASSED" in line) become tests on  *)
(* the words of the line, through the table Sub.                           *)
(***************************************************************************)
EXTENDS Integers, Sequences, FiniteSets, TLC

(***************************************************************************)
(* Bounds of the model.                                                    *)
(***************************************************************************)
MaxLines == 3
MaxRoundsBound == 2
NumTasks == 2

(***************************************************************************)
(* Words of child-process output and the needles the code searches them    *)
(* for.  Sub(w) is the set of needles that are substrings of the word w.   *)
(***************************************************************************)
Sub(w) ==
  CASE w = "test_file.py::test_a" -> {"test_", "test_file.py::test_a", "test_a", "test_file"}
    [] w = "test_file.py::test_b" -> {"test_", "test_file.py::test_b", "test_b", "test_file"}
    [] w = "test_file.py::test_ab" ->
         {"test_", "test_file.py::test_ab", "test_file.py::test_a", "test_ab", "test_a",
          "test_file"}
    [] w = "test_a" -> {"test_", "test_a"}
    [] w = "test_file.py" -> {"test_", "test_file"}
    [] OTHER -> {w}

\* `needle in line`
Contains(line, needle) == \E i \in 1..Len(line) : needle \in Sub(line[i])

\* `needle in text` for a text of several lines (needle has no newline)
TextContains(text, needle) == \E i \in 1..Len(text) : Contains(text[i], needle)

\* line.startswith("test_")
StartsWithTest(line) == Len(line) > 0 /\ "test_" \in Sub(line[1])

\* re.search(r"test_file\.py::test_\w+", w) on one word
MatchFull(w) ==
  IF w \in {"test_file.py::test_a", "test_file.py::test_b", "test_file.py::test_ab"}
    THEN w ELSE ""

\* re.search(r"test_\w+", w) on one word
MatchBare(w) ==
  CASE w = "test_a" -> "test_a"
    [] w = "test_file.py" -> "test_file"
    [] w \in {"test_file.py::test_a", "test_file.py::test_b", "test_file.py::test_ab"}
         -> "test_file"
    [] OTHER -> ""

\* the position of the first word of the line that is in the set at
First(at) == CHOOSE i \in at : \A j \in at : i <= j

\* re.search(r"test_file\.py::test_\w+", line): the leftmost match, or ""
SearchFull(line) ==
  LET at == {i \in 1..Len(line) : MatchFull(line[i]) # ""}
  IN IF at = {} THEN "" ELSE MatchFull(line[First(at)])

\* re.search(r"test_\w+", line): the leftmost match, or ""
SearchBare(line) ==
  LET at == {i \in 1..Len(line) : MatchBare(line[i]) # ""}
  IN IF at = {} THEN "" ELSE MatchBare(line[First(at)])

\* PytestExecutor._extract_test_name: the patterns are tried in order; the
\* third one ("::test_\w+") can only match where the second one matches.
_extract_test_name(line) ==
  IF SearchFull(line) # "" THEN SearchFull(line) ELSE SearchBare(line)

\* PytestExecutor._find_test_section
_find_test_section(stdout, test_name) ==
  LET starts == {i \in 1..Len(stdout) :
                   Contains(stdout[i], test_name) /\ Contains(stdout[i], "FAILED")}
  IN IF starts = {} THEN <<>>
     ELSE LET s == CHOOSE i \in starts : \A j \in starts : i <= j
              ends == {i \in (s+1)..Len(stdout) :
                         /\ StartsWithTest(stdout[i])
                         /\ (Contains(stdout[i], "PASSED") \/ Contains(stdout[i], "FAILED"))}
              e == IF ends = {} THEN Len(stdout) + 1
                   ELSE CHOOSE i \in ends : \A j \in ends : i <= j
          IN SubSeq(stdout, s, e - 1)

\* PytestExecutor._extract_error_info
_extract_error_info(test_section) ==
  IF TextContains(test_section, "AssertionError")
    THEN <<"AssertionError", "Assertion failed">>
  ELSE IF TextContains(test_section, "IndexError")
    THEN <<"IndexError", "Index out of range">>
  ELSE IF TextContains(test_section, "TypeError")
    THEN <<"TypeError", "Type error occurred">>
  ELSE IF TextContains(test_section, "ValueError")
    THEN <<"ValueError", "Value error occurred">>
  ELSE <<"RuntimeError", "Test execution failed">>

\* PytestExecutor._extract_failed_test_details with _failed_test_to_dict
_extract_failed_test_details(test_name, stdout) ==
  LET test_section == _find_test_section(stdout, test_name)
      info == _extract_error_info(test_section)
  IN [test_name |-> test_name,
      assertion |-> "Test assertion",
      expected |-> "Test should pass",
      error_type |-> info[1],
      error_message |-> info[2],
      traceback |-> test_section]

PassedRecord(test_name) ==
  [test_name |-> test_name, status |-> "PASS"]

\* the loop of _parse_pytest_output over the lines of stdout
RECURSIVE ScanLines(_, _, _, _)
ScanLines(stdout, i, passed, failed) ==
  IF i > Len(stdout) THEN <<passed, failed>>
  ELSE LET line == stdout[i]
           name == _extract_test_name(line)
       IN IF Contains(line, "PASSED") /\ Contains(line, "test_")
            THEN ScanLines(stdout, i + 1,
                           IF name # "" THEN Append(passed, PassedRecord(name)) ELSE passed,
                           failed)
          ELSE IF Contains(line, "FAILED") /\ Contains(line, "test_")
            THEN ScanLines(stdout, i + 1, passed,
                           IF name # ""
                             THEN Append(failed, _extract_failed_test_details(name, stdout))
                             ELSE failed)
          ELSE ScanLines(stdout, i + 1, passed, failed)

\* passed_count / total_tests: the quotient as a fraction in lowest terms
RECURSIVE Gcd(_, _)
Gcd(a, b) == IF b = 0 THEN a ELSE Gcd(b, a % b)

Quotient(n, d) == [num |-> n \div Gcd(n, d), den |-> d \div Gcd(n, d)]

Zero == [num |-> 0, den |-> 1]

One == [num |-> 1, den |-> 1]

SuccessRate(passed_count, total_tests) ==
  IF total_tests > 0 THEN Quotient(passed_count, total_tests) ELSE Zero

\* PytestExecutor._generate_error_summary: the histogram keeps the order in
\* which the error kinds are first met (dict insertion order)
RECURSIVE Histogram(_, _, _)
Histogram(failed, i, acc) ==
  IF i > Len(failed) THEN acc
  ELSE LET k == failed[i].error_type
           at == {j \in 1..Len(acc) : acc[j][1] = k}
       IN IF at = {} THEN Histogram(failed, i + 1, Append(acc, <<k, 1>>))
          ELSE LET j == CHOOSE x \in at : TRUE
               IN Histogram(failed, i + 1, [acc EXCEPT ![j] = <<k, acc[j][2] + 1>>])

\* _generate_error_summary that lists the kind of every failed record, one
\* entry per record
_generate_error_summary_M(failed) ==
  IF failed = <<>> THEN [kind |-> "All tests passed", parts |-> <<>>, message |-> <<>>]
  ELSE [kind |-> "Failed tests",
        parts |-> [i \in 1..Len(failed) |-> <<failed[i].error_type, 1>>],
        message |-> <<>>]

\* PytestExecutor._generate_error_summary
_generate_error_summary(failed) ==
  IF failed = <<>> THEN [kind |-> "All tests passed", parts |-> <<>>, message |-> <<>>]
  ELSE [kind |-> "Failed tests", parts |-> Histogram(failed, 1, <<>>), message |-> <<>>]

\* _create_error_result with the error result marked ready for repair
_create_error_result_M(task_id, error_message) ==
  [task_id |-> task_id,
   total_tests |-> 0,
   passed_tests |-> 0,
   failed_tests |-> 0,
   success_rate |-> Zero,
   passed_test_details |-> <<>>,
   failed_test_details |-> <<>>,
   ready_for_repair |-> TRUE,
   can_stop_iteration |-> FALSE,
   error_summary |-> [kind |-> "Execution error", parts |-> <<>>, message |-> error_message]]

\* PytestExecutor._create_error_result
_create_error_result(task_id, error_message) ==
  [task_id |-> task_id,
   total_tests |-> 0,
   passed_tests |-> 0,
   failed_tests |-> 0,
   success_rate |-> Zero,
   passed_test_details |-> <<>>,
   failed_test_details |-> <<>>,
   ready_for_repair |-> FALSE,
   can_stop_iteration |-> TRUE,
   error_summary |-> [kind |-> "Execution error", parts |-> <<>>, message |-> error_message]]

\* ParsedResult with total_tests counting the passed records only
ParsedResult_M(task_id, passed, failed) ==
  LET total_tests == Len(passed)
      passed_count == Len(passed)
      failed_count == Len(failed)
  IN [task_id |-> task_id,
      total_tests |-> total_tests,
      passed_tests |-> passed_count,
      failed_tests |-> failed_count,
      success_rate |-> SuccessRate(passed_count, total_tests),
      passed_test_details |-> passed,
      failed_test_details |-> failed,
      ready_for_repair |-> failed_count > 0,
      can_stop_iteration |-> failed_count = 0,
      error_summary |-> _generate_error_summary(failed)]

\* the result built from the parsed records (lines 240-265)
ParsedResult(task_id, passed, failed) ==
  LET total_tests == Len(passed) + Len(failed)
      passed_count == Len(passed)
      failed_count == Len(failed)
  IN [task_id |-> task_id,
      total_tests |-> total_tests,
      passed_tests |-> passed_count,
      failed_tests |-> failed_count,
      success_rate |-> SuccessRate(passed_count, total_tests),
      passed_test_details |-> passed,
      failed_test_details |-> failed,
      ready_for_repair |-> failed_count > 0,
      can_stop_iteration |-> failed_count = 0,
      error_summary |-> _generate_error_summary(failed)]

\* the empty string, as a text: one line without words
EmptyText == << <<>> >>

\* _parse_pytest_output that reports stderr as it is, empty or not
_parse_pytest_output_M(stdout, stderr, task_id) ==
  LET scan == ScanLines(stdout, 1, <<>>, <<>>)
      passed == scan[1]
      failed == scan[2]
  IN IF /\ passed = <<>>
        /\ failed = <<>>
        /\ (TextContains(stdout, "collected 0 items") \/ TextContains(stdout, "no tests ran"))
       THEN _create_error_result(task_id, stderr)
     ELSE ParsedResult(task_id, passed, failed)

\* PytestExecutor._parse_pytest_output
_parse_pytest_output(stdout, stderr, task_id) ==
  LET scan == ScanLines(stdout, 1, <<>>, <<>>)
      passed == scan[1]
      failed == scan[2]
  IN IF /\ passed = <<>>
        /\ failed = <<>>
        /\ (TextContains(stdout, "collected 0 items") \/ TextContains(stdout, "no tests ran"))
       THEN _create_error_result(task_id,
              IF stderr # EmptyText THEN stderr ELSE << <<"No tests were collected">> >>)
     ELSE ParsedResult(task_id, passed, failed)

(***************************************************************************)
(* What happens to the child process.  kind "ran": pytest ran and left     *)
(* stdout/stderr; "timeout": subprocess.run raised TimeoutExpired;         *)
(* "raise": writing the unit or launching the process raised, with         *)
(* str(e) in the field error.                                              *)
(***************************************************************************)
\* PytestExecutor._run_pytest: the CompletedProcess it returns
_run_pytest(outcome) ==
  IF outcome.kind = "timeout"
    THEN [stdout |-> EmptyText, stderr |-> << <<"Test execution timed out">> >>]
    ELSE [stdout |-> outcome.stdout, stderr |-> outcome.stderr]

\* execute_tests whose except clause drops the text of the exception
execute_tests_M(outcome, task_id) ==
  IF outcome.kind = "raise"
    THEN _create_error_result(task_id, EmptyText)
    ELSE LET completed == _run_pytest(outcome)
         IN _parse_pytest_output(completed.stdout, completed.stderr, task_id)

\* PytestExecutor.execute_tests (the orchestrator passes no task_id)
execute_tests(outcome, task_id) ==
  IF outcome.kind = "raise"
    THEN _create_error_result(task_id, outcome.error)
    ELSE LET result == _run_pytest(outcome)
         IN _parse_pytest_output(result.stdout, result.stderr, task_id)

(***************************************************************************)
(* The unit that is executed.  A test suite and a candidate code are texts *)
(* like the output: sequences of lines, a line a sequence of words joined  *)
(* by single spaces, so that a leading word "" is one space of             *)
(* indentation.  Of the words used below, "pkg.your_module" has the        *)
(* substring "your_module", and only "test_a():" starts with "test_"; a    *)
(* needle of several words occurs in a line where its words occur one      *)
(* after the other.                                                        *)
(***************************************************************************)
\* line.lstrip()
RECURSIVE LStrip(_)
LStrip(line) ==
  IF line # <<>> /\ Head(line) = "" THEN LStrip(Tail(line)) ELSE line

\* line.rstrip()
RECURSIVE RStrip(_)
RStrip(line) ==
  IF line # <<>> /\ line[Len(line)] = ""
    THEN RStrip(SubSeq(line, 1, Len(line) - 1))
    ELSE line

\* line.strip()
StripLine(line) == RStrip(LStrip(line))

\* text.lstrip(): the blank lines at the start go with their newlines
RECURSIVE LStripText(_)
LStripText(text) ==
  IF Len(text) > 1 /\ StripLine(Head(text)) = <<>>
    THEN LStripText(Tail(text))
    ELSE [text EXCEPT ![1] = LStrip(@)]

\* text.rstrip()
RECURSIVE RStripText(_)
RStripText(text) ==
  IF Len(text) > 1 /\ StripLine(text[Len(text)]) = <<>>
    THEN RStripText(SubSeq(text, 1, Len(text) - 1))
    ELSE [text EXCEPT ![Len(text)] = RStrip(@)]

\* code.strip(), tests.strip()
StripText(text) == RStripText(LStripText(text))

\* '\n'.join(lines), as a text: the join of no line is the empty string
JoinLines(lines) == IF lines = <<>> THEN EmptyText ELSE lines

\* `'your_module' in line`
HasYourModule(line) ==
  \E i \in 1..Len(line) : line[i] \in {"your_module", "pkg.your_module"}

\* `'from your_module import' in line`
HasFromYourModuleImport(line) ==
  \E i \in 1..(Len(line) - 2) :
    line[i] = "from" /\ line[i + 1] = "your_module" /\ line[i + 2] = "import"

\* `'import your_module' in line`
HasImportYourModule(line) ==
  \E i \in 1..(Len(line) - 1) : line[i] = "import" /\ line[i + 1] = "your_module"

\* the three conditions under which _fix_import_statements drops a line
Dropped(line) ==
  \/ HasFromYourModuleImport(line)
  \/ HasImportYourModule(line)
  \/ /\ Len(StripLine(line)) >= 2
     /\ StripLine(line)[1] = "from"
     /\ \E i \in 1..Len(line) : line[i] = "import"
     /\ HasYourModule(line)

\* the loop of _fix_import_statements over the lines
RECURSIVE FixedLines(_)
FixedLines(lines) ==
  IF lines = <<>> THEN <<>>
  ELSE IF Dropped(Head(lines)) THEN FixedLines(Tail(lines))
  ELSE <<Head(lines)>> \o FixedLines(Tail(lines))

\* the loop of _fix_import_statements that stops dropping after the first
\* line it has dropped
RECURSIVE FixedLinesOnce(_)
FixedLinesOnce(lines) ==
  IF lines = <<>> THEN <<>>
  ELSE IF Dropped(Head(lines)) THEN Tail(lines)
  ELSE <<Head(lines)>> \o FixedLinesOnce(Tail(lines))

\* _fix_import_statements that removes one offending line per call
_fix_import_statements_M(tests) == JoinLines(FixedLinesOnce(tests))

\* PytestExecutor._fix_import_statements
_fix_import_statements(tests) == JoinLines(FixedLines(tests))

\* line.startswith('def ')
StartsWithDef(line) == Len(line) >= 2 /\ line[1] = "def"

\* line.startswith('def test_')
StartsWithDefTest(line) == StartsWithDef(line) /\ line[2] = "test_a():"

\* _tests_contain_function_definition that takes a test function for a
\* definition as well
_tests_contain_function_definition_M(tests) ==
  \E i \in 1..Len(tests) : StartsWithDef(StripLine(tests[i]))

\* PytestExecutor._tests_contain_function_definition
_tests_contain_function_definition(tests) ==
  \E i \in 1..Len(tests) :
    LET line == StripLine(tests[i])
    IN StartsWithDef(line) /\ ~StartsWithDefTest(line)

\* the lines _combine_code_and_tests puts before the code
BaselineImports ==
  << <<"import", "pytest">>, <<"import", "sys">>, <<"import", "os">>, <<>> >>

\* PytestExecutor._combine_code_and_tests
_combine_code_and_tests(code_arg, tests_arg) ==
  LET code == StripText(code_arg)
      tests == StripText(tests_arg)
  IN IF _tests_contain_function_definition(tests)
       THEN _fix_import_statements(tests)
       ELSE BaselineImports
              \o << <<"#", "Generated", "code">> >> \o code \o << <<>> >>
              \o << <<"#", "Generated", "tests">> >> \o _fix_import_statements(tests)

(***************************************************************************)
(* The orchestrator: IterativeRepairMBPPPipeline.                          *)
(***************************************************************************)
VARIABLES
  max_rounds,        \* self.max_rounds
  problems,          \* selected_problems: the task ids, in processing order
  idx,               \* position of run_pipeline's loop in problems
  pc,                \* position of the program
  generated_tests,   \* locals of run_iterative_repair_for_task
  generated_code,
  repaired_code,
  current_code,
  current_round,
  test_result,
  outcome,           \* what happened to the last child process
  result,            \* the value run_iterative_repair_for_task returns
  results,           \* run_pipeline's list of returned values
  initial_tests,     \* initial_tests.jsonl
  round_results,     \* round_<N>_results.jsonl, by N
  round_code,        \* round_<N>_code.jsonl, by N
  final_status,      \* the writes of task_<id>_final_status.json, in order
  test_file,         \* test_file.py in the temporary directory of an execution
  mbpp_eval_final,   \* mbpp_eval_final.jsonl
  calls              \* the generation requests and executions made, in order

vars == <<max_rounds, problems, idx, pc, generated_tests, generated_code,
          repaired_code, current_code, current_round, test_result, outcome,
          result, results, initial_tests, round_results, round_code,
          final_status, test_file, mbpp_eval_final, calls>>

locals == <<generated_tests, generated_code, repaired_code, current_code,
            current_round, test_result, outcome>>

files == <<initial_tests, round_results, round_code, final_status>>

NoText == <<"none">>

NoResult == [task_id |-> "none"]

NoOutcome == [kind |-> "none"]

Rounds == 1..(MaxRoundsBound + 1)

\* the tests the generation service returns for task t
TestsText(t) == <<"tests", t>>

\* the code the generation service returns for round r of task t
CodeText(t, r) == <<"code", t, r>>

(***************************************************************************)
(* Outcomes of the child process the orchestrator is run against: every    *)
(* test passes; one passes and one fails (-v prints the status line, the   *)
(* traceback and the short summary line); the unit does not collect; the   *)
(* process times out; the process cannot be launched.  The parser on its   *)
(* own is also run on an output in which every test fails.                 *)
(***************************************************************************)
Ran(stdout, stderr) ==
  [kind |-> "ran", stdout |-> stdout, stderr |-> stderr, error |-> EmptyText]

AllPass ==
  Ran(<< <<"test_file.py::test_a", "PASSED">>,
         <<"test_file.py::test_b", "PASSED">> >>, EmptyText)

OneFails ==
  Ran(<< <<"test_file.py::test_a", "PASSED">>,
         <<"test_file.py::test_b", "FAILED">>,
         <<"E", "TypeError">>,
         <<"FAILED", "test_file.py::test_b", "-", "TypeError">> >>, EmptyText)

AllFail ==
  Ran(<< <<"test_file.py::test_a", "FAILED">>,
         <<"test_file.py::test_b", "FAILED">>,
         <<"E", "AssertionError">> >>, EmptyText)

NotCollected ==
  Ran(<< <<"collected 0 items">>, <<"ERROR", "test_file.py">> >>, EmptyText)

TimedOut ==
  [kind |-> "timeout", stdout |-> EmptyText, stderr |-> EmptyText, error |-> EmptyText]

LaunchFailed ==
  [kind |-> "raise", stdout |-> EmptyText, stderr |-> EmptyText,
   error |-> << <<"launch failed">> >>]

WriteFailed ==
  [kind |-> "raise", stdout |-> EmptyText, stderr |-> EmptyText,
   error |-> << <<"No space left on device">> >>]

Outcomes == {AllPass, OneFails, NotCollected, TimedOut, LaunchFailed}

task_id == problems[idx]

\* IterativeRepairMBPPPipeline._get_tests_for_task: the first record of the
\* log with this task id; None ("none") when there is no such record
_get_tests_for_task(log, t) ==
  LET at == {i \in 1..Len(log) : log[i].task_id = t}
  IN IF at = {} THEN NoText
     ELSE log[CHOOSE i \in at : \A j \in at : i <= j].generated_tests

\* save_initial_tests that opens the log for writing: the log is the record
save_initial_tests_M(log, t, text) ==
  << [task_id |-> t, generated_tests |-> text, stage |-> "test_generation"] >>

\* IterativeRepairMBPPPipeline.save_initial_tests
save_initial_tests(log, t, text) ==
  Append(log, [task_id |-> t, generated_tests |-> text, stage |-> "test_generation"])

\* save_round_data that leaves the file as it was
save_round_data_M(file, n, data) == file

\* IterativeRepairMBPPPipeline.save_round_data: append to the file of round n
save_round_data(file, n, data) == [file EXCEPT ![n] = Append(@, data)]

\* IterativeRepairMBPPPipeline.save_task_final_status
save_task_final_status(t, total_rounds, final_success, final_success_rate) ==
  Append(final_status, [task_id |-> t,
                        total_rounds |-> total_rounds,
                        final_success |-> final_success,
                        final_success_rate |-> final_success_rate])

\* convert_to_mbpp_eval_format, lines 412-422: the round it takes for the
\* task of key i, from the last write of task_<i>_final_status.json, or 1
task_final_rounds(i) ==
  LET at == {j \in 1..Len(final_status) : final_status[j].task_id = i}
  IN IF at = {} THEN 1
     ELSE final_status[CHOOSE j \in at : \A k \in at : k <= j].total_rounds

\* task_final_rounds.get(task_id, 1): the keys are 1..len(problems)
final_round(t) == IF t \in 1..Len(problems) THEN task_final_rounds(t) ELSE 1

\* the code of the first record of task t in round_<final_round>_code.jsonl,
\* None ("none") without such a record or without the file
task_code(t) ==
  LET file == round_code[final_round(t)]
      at == {i \in 1..Len(file) : file[i].task_id = t}
  IN IF at = {} THEN NoText
     ELSE file[CHOOSE i \in at : \A j \in at : i <= j].generated_code

\* the loop of convert_to_mbpp_eval_format over the task ids in order
RECURSIVE converted_items(_)
converted_items(i) ==
  IF i > Len(problems) THEN <<>>
  ELSE (IF task_code(problems[i]) = NoText THEN <<>>
        ELSE << [task_id |-> problems[i], completion |-> task_code(problems[i])] >>)
         \o converted_items(i + 1)

\* IterativeRepairMBPPPipeline.convert_to_mbpp_eval_format
convert_to_mbpp_eval_format == converted_items(1)

\* the record of a round's execution written to round_<N>_results.jsonl
ResultsRecord(t, n, r, ready, stop) ==
  [task_id |-> t,
   round |-> n,
   total_tests |-> r.total_tests,
   passed_tests |-> r.passed_tests,
   failed_tests |-> r.failed_tests,
   success_rate |-> r.success_rate,
   stage |-> "test_execution",
   ready_for_repair |-> ready,
   can_stop_iteration |-> stop]

\* the record of a round's code written to round_<N>_code.jsonl
CodeRecord(t, n, code, stage) ==
  [task_id |-> t,
   round |-> n,
   generated_code |-> code,
   tests_source |-> "initial_tests.jsonl",
   tests_task_id |-> t,
   stage |-> stage]

\* the dictionary run_iterative_repair_for_task returns
Returned(t, status, rounds_used) ==
  [task_id |-> t, status |-> status, rounds_used |-> rounds_used]

\* a request to the generation service or an execution, as the collaborator
\* sees it: the round it is for, the test text it carries, whether it raised
Call(t, op, n, tests, raised) ==
  [task_id |-> t, op |-> op, round |-> n, tests |-> tests, raised |-> raised]

\* NoFailedTests that also asks for a test to have passed
NoFailedTests_M(r) == r.failed_tests = 0 /\ r.passed_tests > 0

\* `if test_result.failed_tests == 0` (initial round and repair rounds)
NoFailedTests(r) == r.failed_tests = 0

\* LoopCondition that lets one more iteration in
LoopCondition_M == current_round <= max_rounds + 1

\* `while current_round <= self.max_rounds`
LoopCondition == current_round <= max_rounds

\* RepairTests with a test text of its own for every round
RepairTests_M == <<"tests", task_id, current_round>>

\* the test text of a repair iteration, in the repair request
\* (all_tests=generated_tests) and in the execution
RepairTests == generated_tests

\* RepairRound without the increment
RepairRound_M == current_round

\* the round a repair iteration works on: current_round + 1
RepairRound == current_round + 1

Init ==
  /\ max_rounds \in 0..MaxRoundsBound
  /\ problems = [i \in 1..NumTasks |-> i]
  /\ idx = 0
  /\ pc = "next_task"
  /\ generated_tests = NoText
  /\ generated_code = NoText
  /\ repaired_code = NoText
  /\ current_code = NoText
  /\ current_round = 0
  /\ test_result = NoResult
  /\ outcome = NoOutcome
  /\ result = NoResult
  /\ results = <<>>
  /\ initial_tests = <<>>
  /\ round_results = [n \in Rounds |-> <<>>]
  /\ round_code = [n \in Rounds |-> <<>>]
  /\ final_status = <<>>
  /\ test_file = NoText
  /\ mbpp_eval_final = <<>>
  /\ calls = <<>>

\* run_pipeline: the loop takes the next problem and calls
\* run_iterative_repair_for_task
NextTask ==
  /\ pc = "next_task"
  /\ idx < Len(problems)
  /\ idx' = idx + 1
  /\ pc' = "test_generation"
  /\ generated_tests' = NoText
  /\ generated_code' = NoText
  /\ repaired_code' = NoText
  /\ current_code' = NoText
  /\ current_round' = 0
  /\ test_result' = NoResult
  /\ outcome' = NoOutcome
  /\ result' = NoResult
  /\ UNCHANGED <<max_rounds, problems, test_file, mbpp_eval_final, results, files, calls>>

\* Step 1, generate_tests_for_mbpp returns: save the tests, read them back
TestGeneration ==
  /\ pc = "test_generation"
  /\ LET text == TestsText(task_id)
         log == save_initial_tests(initial_tests, task_id, text)
         persisted_tests == _get_tests_for_task(log, task_id)
     IN /\ initial_tests' = log
        /\ generated_tests' = IF persisted_tests # NoText THEN persisted_tests ELSE text
  /\ calls' = Append(calls, Call(task_id, "test_generation", 0, NoText, FALSE))
  /\ pc' = "code_generation"
  /\ UNCHANGED <<max_rounds, problems, test_file, mbpp_eval_final, idx, generated_code, repaired_code,
                 current_code, current_round, test_result, outcome, result,
                 results, round_results, round_code, final_status>>

\* TestGenerationFailed that goes on to the code generation without tests
TestGenerationFailed_M ==
  /\ pc = "test_generation"
  /\ calls' = Append(calls, Call(task_id, "test_generation", 0, NoText, TRUE))
  /\ pc' = "code_generation"
  /\ UNCHANGED <<max_rounds, problems, test_file, mbpp_eval_final, idx, locals, result, results, files>>

\* Step 1, generate_tests_for_mbpp raises
TestGenerationFailed ==
  /\ pc = "test_generation"
  /\ calls' = Append(calls, Call(task_id, "test_generation", 0, NoText, TRUE))
  /\ result' = Returned(task_id, "test_generation_failed", 0)
  /\ pc' = "returned"
  /\ UNCHANGED <<max_rounds, problems, test_file, mbpp_eval_final, idx, locals, results, files>>

\* Step 2, generate_implementation_with_tests_mbpp returns
CodeGeneration ==
  /\ pc = "code_generation"
  /\ calls' = Append(calls, Call(task_id, "code_generation", 1, generated_tests, FALSE))
  /\ generated_code' = CodeText(task_id, 1)
  /\ pc' = "execution"
  /\ UNCHANGED <<max_rounds, problems, test_file, mbpp_eval_final, idx, generated_tests, repaired_code,
                 current_code, current_round, test_result, outcome, result,
                 results, files>>

\* Step 2, generate_implementation_with_tests_mbpp raises
CodeGenerationFailed ==
  /\ pc = "code_generation"
  /\ calls' = Append(calls, Call(task_id, "code_generation", 1, generated_tests, TRUE))
  /\ result' = Returned(task_id, "code_generation_failed", 0)
  /\ pc' = "returned"
  /\ UNCHANGED <<max_rounds, problems, test_file, mbpp_eval_final, idx, locals, results, files>>

\* Step 3: execute the initial code, save round 1, return or enter the loop
Execution ==
  /\ pc = "execution"
  /\ \E o \in Outcomes :
       LET r == execute_tests(o, "unknown")
           passed == NoFailedTests(r)
       IN /\ outcome' = o
          /\ test_result' = r
          /\ round_results' = save_round_data(round_results, 1,
                                ResultsRecord(task_id, 1, r, ~passed, passed))
          /\ round_code' = save_round_data(round_code, 1,
                             CodeRecord(task_id, 1, generated_code, "code_generation"))
          /\ IF passed
               THEN /\ result' = Returned(task_id, "success", 1)
                    /\ pc' = "returned"
                    /\ UNCHANGED <<current_code, current_round>>
               ELSE /\ current_code' = generated_code
                    /\ current_round' = 1
                    /\ pc' = "repair_loop"
                    /\ UNCHANGED result
  /\ calls' = Append(calls, Call(task_id, "execution", 1, generated_tests, FALSE))
  /\ UNCHANGED <<max_rounds, problems, test_file, mbpp_eval_final, idx, generated_tests, generated_code,
                 repaired_code, results, initial_tests, final_status>>

\* Step 4, loop body up to the repair request: generate_repaired_code_mbpp
\* returns
RepairGeneration ==
  /\ pc = "repair_loop"
  /\ LoopCondition
  /\ calls' = Append(calls, Call(task_id, "repair_generation", RepairRound,
                                  RepairTests, FALSE))
  /\ repaired_code' = CodeText(task_id, RepairRound)
  /\ pc' = "repair_execution"
  /\ UNCHANGED <<max_rounds, problems, test_file, mbpp_eval_final, idx, generated_tests, generated_code,
                 current_code, current_round, test_result, outcome, result,
                 results, files>>

\* RepairGenerationFailed without the except clause: the task ends as failed
RepairGenerationFailed_M ==
  /\ pc = "repair_loop"
  /\ LoopCondition
  /\ calls' = Append(calls, Call(task_id, "repair_generation", RepairRound,
                                  RepairTests, TRUE))
  /\ result' = Returned(task_id, "failed", max_rounds + 1)
  /\ pc' = "returned"
  /\ UNCHANGED <<max_rounds, problems, test_file, mbpp_eval_final, idx, locals, results, files>>

\* Step 4, the repair request raises: the except clause advances the round
RepairGenerationFailed ==
  /\ pc = "repair_loop"
  /\ LoopCondition
  /\ calls' = Append(calls, Call(task_id, "repair_generation", RepairRound,
                                  RepairTests, TRUE))
  /\ current_round' = current_round + 1
  /\ UNCHANGED <<max_rounds, problems, test_file, mbpp_eval_final, idx, pc, generated_tests, generated_code,
                 repaired_code, current_code, test_result, outcome, result,
                 results, files>>

\* Step 4, rest of the loop body: execute the repaired code, save the round,
\* return on success, else go round the loop
RepairExecution ==
  /\ pc = "repair_execution"
  /\ \E o \in Outcomes :
       LET r == execute_tests(o, "unknown")
           n == RepairRound
       IN /\ outcome' = o
          /\ test_result' = r
          /\ round_results' = save_round_data(round_results, n,
                                ResultsRecord(task_id, n, r,
                                              r.failed_tests > 0, r.failed_tests = 0))
          /\ round_code' = save_round_data(round_code, n,
                             CodeRecord(task_id, n, repaired_code, "code_repair"))
          /\ IF NoFailedTests(r)
               THEN /\ result' = Returned(task_id, "success", n)
                    /\ pc' = "returned"
                    /\ UNCHANGED <<current_code, current_round>>
               ELSE /\ current_code' = repaired_code
                    /\ current_round' = current_round + 1
                    /\ pc' = "repair_loop"
                    /\ UNCHANGED result
  /\ calls' = Append(calls, Call(task_id, "execution", RepairRound,
                                  RepairTests, FALSE))
  /\ UNCHANGED <<max_rounds, problems, test_file, mbpp_eval_final, idx, generated_tests, generated_code,
                 repaired_code, results, initial_tests, final_status>>

\* RepairExhausted that writes max_rounds as the total number of rounds
RepairExhausted_M ==
  /\ pc = "repair_loop"
  /\ ~LoopCondition
  /\ final_status' = save_task_final_status(task_id, max_rounds, FALSE,
                       SuccessRate(test_result.passed_tests, test_result.total_tests))
  /\ result' = Returned(task_id, "failed", max_rounds + 1)
  /\ pc' = "returned"
  /\ UNCHANGED <<max_rounds, problems, test_file, mbpp_eval_final, idx, locals, results, initial_tests,
                 round_results, round_code, calls>>

\* the loop condition fails: save the final status and return "failed"
RepairExhausted ==
  /\ pc = "repair_loop"
  /\ ~LoopCondition
  /\ final_status' = save_task_final_status(task_id, current_round, FALSE,
                       SuccessRate(test_result.passed_tests, test_result.total_tests))
  /\ result' = Returned(task_id, "failed", max_rounds + 1)
  /\ pc' = "returned"
  /\ UNCHANGED <<max_rounds, problems, test_file, mbpp_eval_final, idx, locals, results, initial_tests,
                 round_results, round_code, calls>>

\* AfterTask that ends the run when the task did not succeed
AfterTask_M == IF result.status = "success" THEN "next_task" ELSE "exit_1"

\* run_pipeline's loop after a task has returned: whatever the status, go on
\* with the next problem
AfterTask == "next_task"

\* TaskReturned that saves a final status whatever the status of the task
TaskReturned_M ==
  /\ pc = "returned"
  /\ results' = Append(results, result)
  /\ final_status' = save_task_final_status(result.task_id, result.rounds_used,
                                            result.status = "success", One)
  /\ pc' = "next_task"
  /\ UNCHANGED <<max_rounds, problems, test_file, mbpp_eval_final, idx, locals, result, initial_tests,
                 round_results, round_code, calls>>

\* run_pipeline, after the call: keep the result, save the final status of a
\* successful task
TaskReturned ==
  /\ pc = "returned"
  /\ results' = Append(results, result)
  /\ final_status' = IF result.status = "success"
                       THEN save_task_final_status(result.task_id, result.rounds_used,
                                                   TRUE, One)
                       ELSE final_status
  /\ pc' = AfterTask
  /\ UNCHANGED <<max_rounds, problems, test_file, mbpp_eval_final, idx, locals, result, initial_tests,
                 round_results, round_code, calls>>

\* run_pipeline: load_mbpp_problems raises (the problem file cannot be read);
\* main prints the error and exits with code 1
LoadFailed ==
  /\ pc = "next_task"
  /\ idx = 0
  /\ pc' = "exit_1"
  /\ UNCHANGED <<max_rounds, problems, test_file, mbpp_eval_final, idx, locals,
                 result, results, files, calls>>

\* run_pipeline: every selected problem has been processed; convert the final
\* code of the tasks and return, and main ends with exit code 0
Finish ==
  /\ pc = "next_task"
  /\ idx = Len(problems)
  /\ mbpp_eval_final' = convert_to_mbpp_eval_format
  /\ pc' = "done"
  /\ UNCHANGED <<max_rounds, problems, test_file, idx, locals, result, results,
                 files, calls>>

Next ==
  \/ NextTask
  \/ TestGeneration
  \/ TestGenerationFailed
  \/ CodeGeneration
  \/ CodeGenerationFailed
  \/ Execution
  \/ RepairGeneration
  \/ RepairGenerationFailed
  \/ RepairExecution
  \/ RepairExhausted
  \/ TaskReturned
  \/ LoadFailed
  \/ Finish

Spec == Init /\ [][Next]_vars

\* The pipeline is one sequential program whose calls return or raise, so a
\* step that can be taken is eventually taken.
SpecFair == Init /\ [][Next]_vars /\ WF_vars(Next)

(***************************************************************************)
(* The pipeline run on an output directory that is not empty: run_pipeline  *)
(* takes the directory from --output_dir and creates it with exist_ok, and  *)
(* save_initial_tests appends, so initial_tests.jsonl may hold the records  *)
(* of an earlier run, at most MaxPrior of them here.                        *)
(***************************************************************************)
MaxPrior == 1

\* the tests an earlier run generated for task t
EarlierTests(t) == <<"tests", t, "earlier">>

PriorLogs ==
  UNION {[1..k -> {[task_id |-> t,
                    generated_tests |-> EarlierTests(t),
                    stage |-> "test_generation"] : t \in 1..NumTasks}] : k \in 0..MaxPrior}

InitPrior ==
  /\ max_rounds \in 0..MaxRoundsBound
  /\ problems = [i \in 1..NumTasks |-> i]
  /\ idx = 0
  /\ pc = "next_task"
  /\ generated_tests = NoText
  /\ generated_code = NoText
  /\ repaired_code = NoText
  /\ current_code = NoText
  /\ current_round = 0
  /\ test_result = NoResult
  /\ outcome = NoOutcome
  /\ result = NoResult
  /\ results = <<>>
  /\ initial_tests \in PriorLogs
  /\ round_results = [n \in Rounds |-> <<>>]
  /\ round_code = [n \in Rounds |-> <<>>]
  /\ final_status = <<>>
  /\ test_file = NoText
  /\ mbpp_eval_final = <<>>
  /\ calls = <<>>

SpecPrior == InitPrior /\ [][Next]_vars

(***************************************************************************)
(* The pipeline run with --start_task: load_mbpp_problems sorts the records *)
(* of the problem file by task id and takes the slice that starts at index  *)
(* start_task, so the selected task ids are start_task + 1 .. start_task +  *)
(* NumTasks for a file with the ids 1, 2, 3, ...; start_task is at most     *)
(* MaxStart here.                                                           *)
(***************************************************************************)
MaxStart == 1

InitOffset ==
  /\ max_rounds \in 0..MaxRoundsBound
  /\ problems \in {[i \in 1..NumTasks |-> start_task + i] : start_task \in 0..MaxStart}
  /\ idx = 0
  /\ pc = "next_task"
  /\ generated_tests = NoText
  /\ generated_code = NoText
  /\ repaired_code = NoText
  /\ current_code = NoText
  /\ current_round = 0
  /\ test_result = NoResult
  /\ outcome = NoOutcome
  /\ result = NoResult
  /\ results = <<>>
  /\ initial_tests = <<>>
  /\ round_results = [n \in Rounds |-> <<>>]
  /\ round_code = [n \in Rounds |-> <<>>]
  /\ final_status = <<>>
  /\ test_file = NoText
  /\ mbpp_eval_final = <<>>
  /\ calls = <<>>

SpecOffset == InitOffset /\ [][Next]_vars

(***************************************************************************)
(* The pipeline on an output directory whose writes can fail: open or      *)
(* write raises OSError and nothing of the record is written.  Which write  *)
(* of a round raises is the input "results" or "code" of the step.          *)
(***************************************************************************)
Writes == {"results", "code"}

\* Step 1, generate_tests_for_mbpp returns and save_initial_tests raises:
\* the except clause of step 1 returns test_generation_failed
InitialTestsWriteFailed ==
  /\ pc = "test_generation"
  /\ calls' = Append(calls, Call(task_id, "test_generation", 0, NoText, FALSE))
  /\ result' = Returned(task_id, "test_generation_failed", 0)
  /\ pc' = "returned"
  /\ UNCHANGED <<max_rounds, problems, test_file, mbpp_eval_final, idx, locals,
                 results, files>>

\* Step 3, a write of round 1 raises: nothing catches the exception before
\* main, which exits with code 1
ExecutionWriteFailed ==
  /\ pc = "execution"
  /\ \E o \in Outcomes, w \in Writes :
       LET r == execute_tests(o, "unknown")
           passed == NoFailedTests(r)
       IN /\ outcome' = o
          /\ test_result' = r
          /\ round_results' = IF w = "code"
                                THEN save_round_data(round_results, 1,
                                       ResultsRecord(task_id, 1, r, ~passed, passed))
                                ELSE round_results
  /\ calls' = Append(calls, Call(task_id, "execution", 1, generated_tests, FALSE))
  /\ pc' = "exit_1"
  /\ UNCHANGED <<max_rounds, problems, test_file, mbpp_eval_final, idx,
                 generated_tests, generated_code, repaired_code, current_code,
                 current_round, result, results, initial_tests, round_code,
                 final_status>>

\* Step 4, a write of the repair round raises: the except clause of the loop
\* advances the round, whatever the result of the execution was
RepairWriteFailed ==
  /\ pc = "repair_execution"
  /\ \E o \in Outcomes, w \in Writes :
       LET r == execute_tests(o, "unknown")
           n == RepairRound
       IN /\ outcome' = o
          /\ test_result' = r
          /\ round_results' = IF w = "code"
                                THEN save_round_data(round_results, n,
                                       ResultsRecord(task_id, n, r,
                                                     r.failed_tests > 0, r.failed_tests = 0))
                                ELSE round_results
  /\ calls' = Append(calls, Call(task_id, "execution", RepairRound,
                                  RepairTests, FALSE))
  /\ current_round' = current_round + 1
  /\ pc' = "repair_loop"
  /\ UNCHANGED <<max_rounds, problems, test_file, mbpp_eval_final, idx,
                 generated_tests, generated_code, repaired_code, current_code,
                 result, results, initial_tests, round_code, final_status>>

\* the loop condition fails and save_task_final_status raises: exit code 1
ExhaustedStatusWriteFailed ==
  /\ pc = "repair_loop"
  /\ ~LoopCondition
  /\ pc' = "exit_1"
  /\ UNCHANGED <<max_rounds, problems, test_file, mbpp_eval_final, idx, locals,
                 result, results, files, calls>>

\* run_pipeline, after a successful task: save_task_final_status raises
SuccessStatusWriteFailed ==
  /\ pc = "returned"
  /\ result.status = "success"
  /\ results' = Append(results, result)
  /\ pc' = "exit_1"
  /\ UNCHANGED <<max_rounds, problems, test_file, mbpp_eval_final, idx, locals,
                 result, files, calls>>

\* run_pipeline, after the loop: the write of mbpp_eval_final.jsonl raises
ConvertWriteFailed ==
  /\ pc = "next_task"
  /\ idx = Len(problems)
  /\ pc' = "exit_1"
  /\ UNCHANGED <<max_rounds, problems, test_file, mbpp_eval_final, idx, locals,
                 result, results, files, calls>>

NextIO ==
  \/ Next
  \/ InitialTestsWriteFailed
  \/ ExecutionWriteFailed
  \/ RepairWriteFailed
  \/ ExhaustedStatusWriteFailed
  \/ SuccessStatusWriteFailed
  \/ ConvertWriteFailed

SpecIO == Init /\ [][NextIO]_vars

(***************************************************************************)
(* The result parser on its own: the child process has left an arbitrary   *)
(* output of at most MaxLines lines, and execute_tests turns it into a     *)
(* result.                                                                 *)
(***************************************************************************)
Lines ==
  { <<>>,
    <<"test_file.py::test_a", "PASSED">>,
    <<"test_file.py::test_a", "FAILED">>,
    <<"test_file.py::test_b", "PASSED">>,
    <<"test_file.py::test_b", "FAILED">>,
    <<"test_file.py::test_ab", "FAILED">>,
    <<"FAILED", "test_file.py::test_a", "-", "AssertionError">>,
    <<"E", "AssertionError">>,
    <<"E", "TypeError">>,
    <<"collected 0 items">>,
    <<"no tests ran">>,
    <<"ERROR", "test_file.py">> }

Texts(n) == UNION {[1..k -> Lines] : k \in 1..n}

ParseInputs ==
  {Ran(out, err) : out \in Texts(MaxLines),
                   err \in {EmptyText, << <<"ImportError">> >>}}
    \cup {AllFail, TimedOut, LaunchFailed, WriteFailed}

ParseInit ==
  /\ max_rounds = 0
  /\ problems = <<>>
  /\ idx = 0
  /\ pc = "parse"
  /\ generated_tests = NoText
  /\ generated_code = NoText
  /\ repaired_code = NoText
  /\ current_code = NoText
  /\ current_round = 0
  /\ test_result = NoResult
  /\ outcome \in ParseInputs
  /\ result = NoResult
  /\ results = <<>>
  /\ initial_tests = <<>>
  /\ round_results = [n \in Rounds |-> <<>>]
  /\ round_code = [n \in Rounds |-> <<>>]
  /\ final_status = <<>>
  /\ test_file = NoText
  /\ mbpp_eval_final = <<>>
  /\ calls = <<>>

\* one call of PytestExecutor.execute_tests
Parse ==
  /\ pc = "parse"
  /\ test_result' = execute_tests(outcome, "unknown")
  /\ pc' = "parsed"
  /\ UNCHANGED <<max_rounds, problems, test_file, mbpp_eval_final, idx, generated_tests, generated_code,
                 repaired_code, current_code, current_round, outcome, result,
                 results, files, calls>>

ParseNext == Parse

SpecParse == ParseInit /\ [][ParseNext]_vars

(***************************************************************************)
(* The unit builder on its own: a test suite of at most MaxLines lines is  *)
(* sanitized and sanitized again, or combined with a candidate code and    *)
(* written to test_file.py.  calls keeps the argument of every call of     *)
(* _fix_import_statements.                                                 *)
(***************************************************************************)
SuiteLines ==
  { <<>>,
    <<"from", "your_module", "import", "f">>,
    <<"import", "your_module">>,
    <<"", "from", "pkg.your_module", "import", "f">>,
    <<"import", "math">>,
    <<"x", "=", "your_module">>,
    <<"def", "f(x):">>,
    <<"def", "test_a():">>,
    <<"def", "", "test_a():">>,
    <<"", "assert", "f(1)">> }

Suites(n) == UNION {[1..k -> SuiteLines] : k \in 1..n}

CodeA == << <<"def", "f(x):">>, <<"", "return", "x">> >>

CodeB == << <<>>, <<"def", "f(x):">>, <<"", "return", "1">>, <<>> >>

Codes == {CodeA, CodeB}

UnitInit ==
  /\ max_rounds = 0
  /\ problems = <<>>
  /\ idx = 0
  /\ \/ pc = "sanitize" /\ generated_code = NoText
     \/ pc = "combine" /\ generated_code \in Codes
  /\ generated_tests \in Suites(MaxLines)
  /\ repaired_code = NoText
  /\ current_code = NoText
  /\ current_round = 0
  /\ test_result = NoResult
  /\ outcome = NoOutcome
  /\ result = NoResult
  /\ results = <<>>
  /\ initial_tests = <<>>
  /\ round_results = [n \in Rounds |-> <<>>]
  /\ round_code = [n \in Rounds |-> <<>>]
  /\ final_status = <<>>
  /\ test_file = NoText
  /\ mbpp_eval_final = <<>>
  /\ calls = <<>>

\* tests = self._fix_import_statements(tests)
Sanitize ==
  /\ pc \in {"sanitize", "sanitized"}
  /\ generated_tests' = _fix_import_statements(generated_tests)
  /\ calls' = Append(calls, Call("unknown", "_fix_import_statements", 0,
                                  generated_tests, FALSE))
  /\ pc' = IF pc = "sanitize" THEN "sanitized" ELSE "sanitized_twice"
  /\ UNCHANGED <<max_rounds, problems, test_file, mbpp_eval_final, idx, generated_code, repaired_code,
                 current_code, current_round, test_result, outcome, result,
                 results, files>>

\* execute_tests up to the start of the child process: combine the code and
\* the tests and write the unit
Combine ==
  /\ pc = "combine"
  /\ test_file' = _combine_code_and_tests(generated_code, generated_tests)
  /\ pc' = "written"
  /\ UNCHANGED <<max_rounds, problems, mbpp_eval_final, idx, generated_tests, generated_code,
                 repaired_code, current_code, current_round, test_result,
                 outcome, result, results, initial_tests, round_results,
                 round_code, final_status, calls>>

UnitNext == Sanitize \/ Combine

SpecUnit == UnitInit /\ [][UnitNext]_vars

(***************************************************************************)
(* Properties.                                                             *)
(***************************************************************************)
Tasks == {problems[i] : i \in 1..Len(problems)}

Records(file) == UNION {{file[n][i] : i \in 1..Len(file[n])} : n \in Rounds}

\* the round artifacts of task t
ResultsOf(t) == {rec \in Records(round_results) : rec.task_id = t}

CodeOf(t) == {rec \in Records(round_code) : rec.task_id = t}

HasArtifact(t, n) ==
  \/ \E rec \in ResultsOf(t) : rec.round = n
  \/ \E rec \in CodeOf(t) : rec.round = n

StatusOf(t) == {i \in 1..Len(final_status) : final_status[i].task_id = t}

CallsOf(t) == {i \in 1..Len(calls) : calls[i].task_id = t}

\* the values run_iterative_repair_for_task has returned for task t
OutcomesOf(t) ==
  {results[i] : i \in {j \in 1..Len(results) : results[j].task_id = t}}
    \cup (IF pc = "returned" /\ result.task_id = t THEN {result} ELSE {})

Executed == test_result # NoResult

\* C1: every result of execute_tests has passed_tests + failed_tests =
\* total_tests, and success_rate is passed_tests / total_tests, or 0 when
\* total_tests is 0.
C1_CountsAndRate ==
  Executed =>
    /\ test_result.passed_tests + test_result.failed_tests = test_result.total_tests
    /\ test_result.success_rate.den > 0
    /\ test_result.total_tests > 0 =>
         test_result.success_rate.num * test_result.total_tests
           = test_result.passed_tests * test_result.success_rate.den
    /\ test_result.total_tests = 0 => test_result.success_rate.num = 0

\* a parsed result with one passed and one failed test: rate 1/2
C1_Witness ==
  /\ pc = "parsed"
  /\ test_result.passed_tests = 1
  /\ test_result.failed_tests = 1
  /\ test_result.success_rate = [num |-> 1, den |-> 2]

\* C2: in every execution result and in every persisted round results
\* record, can_stop_iteration is (failed_tests = 0) and ready_for_repair is
\* (failed_tests > 0).
C2_Flags ==
  /\ Executed =>
       /\ test_result.can_stop_iteration = (test_result.failed_tests = 0)
       /\ test_result.ready_for_repair = (test_result.failed_tests > 0)
  /\ \A rec \in Records(round_results) :
       /\ rec.can_stop_iteration = (rec.failed_tests = 0)
       /\ rec.ready_for_repair = (rec.failed_tests > 0)

\* a task with a failing round 1 record, a passing round 2 record, and the
\* last result made by the error path
C2_Witness ==
  \E t \in Tasks :
    /\ \E rec \in ResultsOf(t) : rec.round = 1 /\ rec.failed_tests > 0
    /\ \E rec \in ResultsOf(t) : rec.round = 2 /\ rec.failed_tests = 0
    /\ Executed
    /\ test_result.error_summary.kind = "Execution error"

\* C3: rounds_used of every returned task outcome and total_rounds of every
\* final status record are at most max_rounds + 1.
C3_RoundsBound ==
  /\ \A t \in Tasks : \A o \in OutcomesOf(t) : o.rounds_used <= max_rounds + 1
  /\ \A i \in 1..Len(final_status) : final_status[i].total_rounds <= max_rounds + 1

\* a task that succeeded in the last round the budget allows, after a repair
C3_Witness ==
  /\ max_rounds >= 1
  /\ \E i \in 1..Len(final_status) :
       /\ final_status[i].final_success
       /\ final_status[i].total_rounds = max_rounds + 1
  /\ \E i \in 1..Len(results) :
       results[i].status = "success" /\ results[i].rounds_used = max_rounds + 1

\* the repair request for round n of task t raised
Raised(t, n) ==
  \E i \in CallsOf(t) :
    calls[i].op = "repair_generation" /\ calls[i].round = n /\ calls[i].raised

\* C4, as claimed: the rounds with artifacts of a task have no gap (a task
\* with an artifact for round N+1 has one for round N), whatever the repair
\* rounds did.
C4_NoGaps ==
  \A t \in Tasks : \A n \in Rounds :
    (n > 1 /\ HasArtifact(t, n)) => HasArtifact(t, n - 1)

\* the rounds of task t that were executed, in the order of the executions
Executions(t) == {i \in CallsOf(t) : calls[i].op = "execution"}

\* C4, amended: a task's artifacts start at round 1, every round that has
\* artifacts has one results record and one code record, the rounds are
\* written in strictly increasing order, and a round without artifacts below
\* a round with artifacts is a repair iteration that raised; a task none of
\* whose repair iterations raised has no gap.
C4_GapsOnlyWhereRaised ==
  \A t \in Tasks : \A n \in Rounds :
    /\ Cardinality({rec \in ResultsOf(t) : rec.round = n}) <= 1
    /\ Cardinality({rec \in CodeOf(t) : rec.round = n}) <= 1
    /\ HasArtifact(t, n) <=> \E i \in Executions(t) : calls[i].round = n
    /\ \A i, j \in Executions(t) : i < j => calls[i].round < calls[j].round
    /\ HasArtifact(t, n) =>
         /\ HasArtifact(t, 1)
         /\ \A m \in 2..(n - 1) : ~HasArtifact(t, m) => Raised(t, m)

\* a task with artifacts for rounds 1 and 3 and none for round 2
C4_Witness ==
  \E t \in Tasks :
    /\ HasArtifact(t, 1)
    /\ ~HasArtifact(t, 2)
    /\ HasArtifact(t, 3)
    /\ Raised(t, 2)

\* C5, as claimed: every task the pipeline has finished with has a final
\* status record, whatever its outcome.
C5_EveryTaskHasFinalStatus ==
  \A i \in 1..Len(results) : StatusOf(results[i].task_id) # {}

\* a round of task t whose execution had no failing test
PassedRound(t, n) ==
  \E rec \in ResultsOf(t) : rec.round = n /\ rec.failed_tests = 0

\* C6: a final status record is written at most once per task, only when a
\* round of the task has had no failing test or the repair loop has used up
\* max_rounds, and no generation request or execution of the task follows it.
C6_FinalStatusOnce ==
  [][ /\ final_status' # final_status =>
           \E rec \in {final_status'[Len(final_status')]} :
             /\ final_status' = Append(final_status, rec)
             /\ StatusOf(rec.task_id) = {}
             /\ rec.task_id = task_id
             /\ \/ \E n \in Rounds : PassedRound(rec.task_id, n)
                \/ pc = "repair_loop" /\ current_round > max_rounds
      /\ calls' # calls => StatusOf(task_id') = {}
    ]_vars

\* both ways of writing the record have happened: after a passing round and
\* after the loop used up its rounds
C6_Witness ==
  /\ \E i \in 1..Len(final_status) : final_status[i].final_success
  /\ \E i \in 1..Len(final_status) : ~final_status[i].final_success
  /\ pc = "done"

\* C7, as claimed: a round whose result is the execution-level failure result
\* (no test collected) does not make the task return success.
C7_ZeroTestsNotSuccess ==
  (pc = "returned" /\ Executed /\ test_result.error_summary.kind = "Execution error")
    => result.status # "success"

\* C8, as claimed: a timed out execution gives a failing result, which does
\* not stop the iteration and does not make the task return success.
C8_TimeoutIsFailure ==
  outcome.kind = "timeout" =>
    /\ ~test_result.can_stop_iteration
    /\ pc = "returned" => result.status # "success"

\* C9: when the execution of round r of a task has no failing test, the task
\* returns success with rounds_used = r, and no request, execution or
\* artifact of the task is for a later round or comes after that execution.
C9_StopsAtPassingRound ==
  \A t \in Tasks : \A r \in Rounds :
    PassedRound(t, r) =>
      /\ OutcomesOf(t) # {}
      /\ \A o \in OutcomesOf(t) : o.status = "success" /\ o.rounds_used = r
      /\ \A n \in Rounds : n > r => ~HasArtifact(t, n)
      /\ \A i \in CallsOf(t) : calls[i].round <= r
      /\ \E i \in CallsOf(t) :
           /\ calls[i].op = "execution"
           /\ calls[i].round = r
           /\ \A j \in CallsOf(t) : j <= i

\* a task that passed in round 2 while the budget allowed a round 3
C9_Witness ==
  /\ max_rounds = 2
  /\ \E t \in Tasks :
       /\ PassedRound(t, 2)
       /\ \E i \in 1..Len(results) :
            results[i].task_id = t /\ results[i].rounds_used = 2

\* every round from 1 to max_rounds + 1 of task t was executed and failed
AllRoundsFailed(t) ==
  \A n \in 1..(max_rounds + 1) :
    \E rec \in ResultsOf(t) : rec.round = n /\ rec.failed_tests > 0

\* C10: when the initial execution and all max_rounds repair rounds of a task
\* fail, the task returns failed with rounds_used = max_rounds + 1 and its
\* final status record has final_success false and total_rounds =
\* max_rounds + 1.
C10_ExhaustedIsFailed ==
  \A t \in Tasks :
    (AllRoundsFailed(t) /\ OutcomesOf(t) # {}) =>
      /\ \A o \in OutcomesOf(t) : o.status = "failed" /\ o.rounds_used = max_rounds + 1
      /\ StatusOf(t) # {}
      /\ \A i \in StatusOf(t) :
           /\ ~final_status[i].final_success
           /\ final_status[i].total_rounds = max_rounds + 1

\* max_rounds = 2, three failed attempts, total_rounds 3
C10_Witness ==
  /\ max_rounds = 2
  /\ \E t \in Tasks :
       /\ AllRoundsFailed(t)
       /\ \E i \in StatusOf(t) :
            ~final_status[i].final_success /\ final_status[i].total_rounds = 3

\* the repair requests made for task t, raised or not
RepairRequests(t) == {i \in CallsOf(t) : calls[i].op = "repair_generation"}

\* task t has returned to run_pipeline
Finished(t) == OutcomesOf(t) # {}

\* C11: a repair request that raises in iteration k does not end the task:
\* the loop goes on with iteration k+1 when k < max_rounds, and a task has at
\* most max_rounds repair iterations, raised or not.
C11_RaisedRepairGoesOn ==
  \A t \in Tasks :
    /\ Cardinality(RepairRequests(t)) <= max_rounds
    /\ \A i \in RepairRequests(t) :
         calls[i].raised =>
           LET k == calls[i].round - 1
           IN /\ k <= max_rounds
              /\ (i = Len(calls) /\ ~Finished(t)) =>
                   pc = "repair_loop" /\ current_round = k + 1
              /\ (k < max_rounds /\ Finished(t)) =>
                   \E j \in RepairRequests(t) : j > i /\ calls[j].round = k + 2

\* a finished task whose first repair request raised and whose second one
\* was made and led to an execution
C11_Witness ==
  \E t \in Tasks :
    /\ Finished(t)
    /\ Raised(t, 2)
    /\ \E i \in Executions(t) : calls[i].round = 3

\* C12: a task whose test generation raises ends as test_generation_failed
\* with rounds_used = 0 and without a code generation request; a task whose
\* initial code generation raises ends as code_generation_failed; neither
\* has an execution or a round artifact.
C12_GenerationFailureIsFatal ==
  \A t \in Tasks : \A i \in CallsOf(t) :
    /\ (calls[i].op = "test_generation" /\ calls[i].raised) =>
         /\ Finished(t)
         /\ \A o \in OutcomesOf(t) :
              o.status = "test_generation_failed" /\ o.rounds_used = 0
         /\ CallsOf(t) = {i}
         /\ \A n \in Rounds : ~HasArtifact(t, n)
    /\ (calls[i].op = "code_generation" /\ calls[i].raised) =>
         /\ Finished(t)
         /\ \A o \in OutcomesOf(t) : o.status = "code_generation_failed"
         /\ \A j \in CallsOf(t) : j <= i /\ calls[j].op # "execution"
         /\ \A n \in Rounds : ~HasArtifact(t, n)

\* one task ended by its test generation, another by its code generation
C12_Witness ==
  /\ \E i \in 1..Len(results) : results[i].status = "test_generation_failed"
  /\ \E i \in 1..Len(results) : results[i].status = "code_generation_failed"

\* C13: processing a task terminates: once run_iterative_repair_for_task has
\* started it returns, and no repair iteration runs beyond the max_rounds-th,
\* whether the iterations pass, fail or raise.
C13_TaskTerminates ==
  /\ [](pc = "repair_execution" => current_round <= max_rounds)
  /\ (pc = "test_generation") ~> (pc = "returned")

\* a task that returned after a raised and a failed repair iteration
C13_Witness ==
  /\ pc = "returned"
  /\ max_rounds = 2
  /\ Raised(task_id, 2)
  /\ \E rec \in ResultsOf(task_id) : rec.round = 3 /\ rec.failed_tests > 0

\* the requests and executions of task t that are given the test text
UsesOfTests(t) ==
  {i \in CallsOf(t) : calls[i].op \in {"code_generation", "execution", "repair_generation"}}

\* C14: within a task, the initial execution, every repair request and every
\* repair-round execution are given the same test text, the one the task
\* holds since its test generation finished.
C14_TestsFixed ==
  \A t \in Tasks :
    /\ \A i, j \in UsesOfTests(t) : calls[i].tests = calls[j].tests
    /\ (idx > 0 /\ t = task_id) =>
         \A i \in UsesOfTests(t) : calls[i].tests = generated_tests

\* a task with three executions and two repair requests
C14_Witness ==
  \E t \in Tasks :
    /\ Cardinality(Executions(t)) = 3
    /\ Cardinality({i \in RepairRequests(t) : ~calls[i].raised}) = 2

\* C15, as claimed: once a task's test generation has succeeded, the test
\* text the task goes on with is the text this generation step persisted,
\* whatever initial_tests.jsonl held before.
C15_ReadsBackOwnTests ==
  (idx > 0 /\ pc \in {"code_generation", "execution", "repair_loop", "repair_execution"})
    => /\ generated_tests = TestsText(task_id)
       /\ generated_tests = initial_tests[Len(initial_tests)].generated_tests

\* round n of task t has both its records on disk
Persisted(t, n) ==
  /\ \E rec \in ResultsOf(t) : rec.round = n
  /\ \E rec \in CodeOf(t) : rec.round = n

\* C16: when the generation request or the execution of a round of a task
\* begins, the results record and the code record of every round of the task
\* executed before it are already persisted.
C16_PersistedBeforeNextRound ==
  [][ calls' # calls =>
        LET c == calls'[Len(calls')]
        IN c.op \in {"repair_generation", "execution"} =>
             \A j \in Executions(c.task_id) :
               /\ calls[j].round < c.round
               /\ Persisted(c.task_id, calls[j].round)
    ]_vars

\* the third round of a task has been executed with rounds 1 and 2 on disk
C16_Witness ==
  \E t \in Tasks :
    /\ \E i \in Executions(t) : calls[i].round = 3
    /\ Persisted(t, 1)
    /\ Persisted(t, 2)

\* no line of the output carries PASSED or FAILED together with a test name
NoMarker(stdout) ==
  \A i \in 1..Len(stdout) :
    ~ /\ Contains(stdout[i], "PASSED") \/ Contains(stdout[i], "FAILED")
      /\ Contains(stdout[i], "test_")

\* the output says that no test was collected
ZeroCollected(stdout) ==
  \E i \in 1..Len(stdout) :
    \E w \in {"collected 0 items", "no tests ran"} : Contains(stdout[i], w)

\* C17: on an output without any marker that says no test was collected, the
\* parser returns total_tests = 0, ready_for_repair = false,
\* can_stop_iteration = true, and an error summary made of stderr when
\* stderr is not empty and of the default message otherwise.
C17_NothingCollected ==
  (pc = "parsed" /\ outcome.kind = "ran"
     /\ NoMarker(outcome.stdout) /\ ZeroCollected(outcome.stdout)) =>
    /\ test_result.total_tests = 0
    /\ ~test_result.ready_for_repair
    /\ test_result.can_stop_iteration
    /\ test_result.error_summary.kind = "Execution error"
    /\ outcome.stderr # EmptyText =>
         test_result.error_summary.message = outcome.stderr
    /\ outcome.stderr = EmptyText =>
         test_result.error_summary.message = << <<"No tests were collected">> >>

\* nothing collected and nothing on stderr: the default message is reported
C17_Witness ==
  /\ pc = "parsed"
  /\ outcome.kind = "ran"
  /\ NoMarker(outcome.stdout)
  /\ ZeroCollected(outcome.stdout)
  /\ outcome.stderr = EmptyText
  /\ test_result.error_summary.message = << <<"No tests were collected">> >>

\* C18: when writing the unit or launching the child process raises,
\* execute_tests returns a result structure, the execution-level failure
\* result, that carries the text of the exception.
C18_FailureIsReturned ==
  (pc = "parsed" /\ outcome.kind = "raise") =>
    /\ test_result.total_tests = 0
    /\ test_result.failed_tests = 0
    /\ test_result.error_summary.kind = "Execution error"
    /\ test_result.error_summary.message = outcome.error

\* the unit could not be written and the result says so
C18_Witness ==
  /\ pc = "parsed"
  /\ outcome = WriteFailed
  /\ test_result.error_summary.message = << <<"No space left on device">> >>

\* the status lines pytest -v prints, one per executed test: the test's id
\* followed by its status
StatusLines(stdout, status) ==
  {i \in 1..Len(stdout) :
     /\ Len(stdout[i]) = 2
     /\ MatchFull(stdout[i][1]) # ""
     /\ stdout[i][2] = status}

\* the lines of the short test summary: FAILED followed by the test's id
SummaryLines(stdout) ==
  {i \in 1..Len(stdout) :
     /\ Len(stdout[i]) >= 2
     /\ stdout[i][1] = "FAILED"
     /\ MatchFull(stdout[i][2]) # ""}

\* the output of one run: a test has one status line, and the summary names
\* failed tests only
IsReport(stdout) ==
  /\ \A i, j \in StatusLines(stdout, "PASSED") \cup StatusLines(stdout, "FAILED") :
       stdout[i][1] = stdout[j][1] => i = j
  /\ \A i \in SummaryLines(stdout) :
       \E j \in StatusLines(stdout, "FAILED") : stdout[j][1] = stdout[i][2]

\* C19, as claimed: for a run in which m tests pass and k tests fail the
\* parser reports passed_tests = m, failed_tests = k and total_tests = m + k,
\* however many lines carry a marker with a test's name.
C19_OneRecordPerTest ==
  (pc = "parsed" /\ outcome.kind = "ran" /\ IsReport(outcome.stdout)) =>
    LET m == Cardinality(StatusLines(outcome.stdout, "PASSED"))
        k == Cardinality(StatusLines(outcome.stdout, "FAILED"))
    IN /\ test_result.passed_tests = m
       /\ test_result.failed_tests = k
       /\ test_result.total_tests = m + k

\* a is b without some of its lines
RECURSIVE IsSubseq(_, _)
IsSubseq(a, b) ==
  IF a = <<>> THEN TRUE
  ELSE IF b = <<>> THEN FALSE
  ELSE IF Head(a) = Head(b) THEN IsSubseq(Tail(a), Tail(b))
  ELSE IsSubseq(a, Tail(b))

\* C21: sanitizing a sanitized test text gives it back unchanged, and the
\* sanitized text is the text it was made from without some of its lines
\* (the empty string when no line is kept): the kept lines are unchanged and
\* in order.
C21_SanitizeIdempotent ==
  /\ pc = "sanitized" =>
       (generated_tests = EmptyText \/ IsSubseq(generated_tests, calls[1].tests))
  /\ pc = "sanitized_twice" => generated_tests = calls[2].tests

\* a text of three lines that lost a line in the first call and was given
\* back by the second
C21_Witness ==
  /\ pc = "sanitized_twice"
  /\ Len(calls[1].tests) = 3
  /\ Len(calls[2].tests) = 2
  /\ generated_tests = calls[2].tests

\* the line, stripped, starts with "def " and not with "def test_"
DefinesFunction(line) ==
  LET s == StripLine(line)
  IN Len(s) >= 2 /\ s[1] = "def" /\ s[2] # "test_a():"

\* the sanitized test suite of the unit that was written
SanitizedSuite == _fix_import_statements(StripText(generated_tests))

\* C24: when a line of the test suite defines a function that is not a test
\* function, the unit written for the execution is the sanitized test suite
\* alone, the same for every candidate code; otherwise the unit starts with
\* the baseline imports, has the candidate code after them and ends with the
\* sanitized tests after the code.
C24_UnitOfExecution ==
  pc = "written" =>
    IF \E i \in 1..Len(generated_tests) : DefinesFunction(generated_tests[i])
      THEN /\ test_file = SanitizedSuite
           /\ \A c \in Codes : _combine_code_and_tests(c, generated_tests) = test_file
      ELSE LET code == StripText(generated_code)
           IN /\ Len(test_file) >= 3
              /\ SubSeq(test_file, 1, 3)
                   = << <<"import", "pytest">>, <<"import", "sys">>, <<"import", "os">> >>
              /\ \E i, j \in 4..Len(test_file) :
                   /\ i + Len(code) <= j
                   /\ SubSeq(test_file, i, i + Len(code) - 1) = code
                   /\ SubSeq(test_file, j, Len(test_file)) = SanitizedSuite

\* a suite with a function definition and an import that is dropped, written
\* as the unit without the candidate code
C24_Witness ==
  /\ pc = "written"
  /\ generated_code = CodeB
  /\ \E i \in 1..Len(generated_tests) : DefinesFunction(generated_tests[i])
  /\ \E i \in 1..Len(generated_tests) : Dropped(generated_tests[i])
  /\ Len(test_file) < Len(generated_tests)

\* C22: whatever the tasks return, the pipeline processes every selected
\* task once, in order, and ends with exit code 0 (pc = "done"); it ends with
\* a nonzero exit code (pc = "exit_1") only when the problems could not be
\* loaded, before any task was processed; and it does end.
C22_BatchGoesOn ==
  /\ [](/\ \A i \in 1..Len(results) : results[i].task_id = problems[i]
        /\ Len(results) = (IF pc \in {"next_task", "done", "exit_1"} THEN idx ELSE idx - 1)
        /\ \A t \in Tasks :
             Cardinality({i \in CallsOf(t) : calls[i].op = "test_generation"}) <= 1
        /\ pc = "done" => Len(results) = Len(problems)
        /\ pc = "exit_1" => (results = <<>> /\ calls = <<>>))
  /\ <>(pc \in {"done", "exit_1"})

\* a finished run whose first task had no tests generated and whose second
\* task failed every round
C22_Witness ==
  /\ pc = "done"
  /\ Len(results) = Len(problems)
  /\ results[1].status = "test_generation_failed"
  /\ results[2].status = "failed"

\* the log a is the beginning of the log b
IsPrefix(a, b) == Len(a) <= Len(b) /\ SubSeq(b, 1, Len(a)) = a

\* C23: no step removes or changes a record of the initial-tests log or of a
\* round log: after every step each log begins with what it was before the
\* step, so a record once written stays, unchanged, in every later state.
C23_AppendOnly ==
  [][/\ IsPrefix(initial_tests, initial_tests')
     /\ \A n \in Rounds :
          /\ IsPrefix(round_results[n], round_results'[n])
          /\ IsPrefix(round_code[n], round_code'[n])]_vars

\* the second task has written its tests and two rounds behind the records of
\* the first task, which are still the first records of the logs
C23_Witness ==
  /\ Len(initial_tests) = 2
  /\ Len(round_results[1]) = 2
  /\ Len(round_code[1]) = 2
  /\ Len(round_code[2]) >= 1
  /\ initial_tests[1].task_id = problems[1]
  /\ round_results[1][1].task_id = problems[1]
  /\ round_code[1][1].task_id = problems[1]
  /\ round_code[2][Len(round_code[2])].task_id = problems[2]

\* the part of the output that belongs to the failed test name: from the
\* first line that reports this test as FAILED up to the next status line
OwnSection(stdout, name) ==
  LET starts == {i \in 1..Len(stdout) :
                   _extract_test_name(stdout[i]) = name /\ Contains(stdout[i], "FAILED")}
      s == CHOOSE i \in starts : \A j \in starts : i <= j
      ends == {i \in (s + 1)..Len(stdout) :
                 /\ StartsWithTest(stdout[i])
                 /\ (Contains(stdout[i], "PASSED") \/ Contains(stdout[i], "FAILED"))}
      e == IF ends = {} THEN Len(stdout) + 1
           ELSE CHOOSE i \in ends : \A j \in ends : i <= j
  IN IF starts = {} THEN <<>> ELSE SubSeq(stdout, s, e - 1)

\* the first error kind, in the order of priority, named in the section
KindOf(section) ==
  LET kinds == <<"AssertionError", "IndexError", "TypeError", "ValueError">>
      at == {k \in 1..Len(kinds) : TextContains(section, kinds[k])}
  IN IF at = {} THEN "RuntimeError"
     ELSE kinds[CHOOSE k \in at : \A l \in at : k <= l]

\* C25, as claimed: the error_type of every FAIL record is the first kind, in
\* the order AssertionError, IndexError, TypeError, ValueError, that is named
\* in the test's own section of the output, RuntimeError when none is.
C25_KindFromOwnSection ==
  (pc = "parsed" /\ outcome.kind = "ran") =>
    \A i \in 1..Len(test_result.failed_test_details) :
      LET rec == test_result.failed_test_details[i]
      IN rec.error_type = KindOf(OwnSection(outcome.stdout, rec.test_name))

\* the sum of the counts of the entries of an error summary
RECURSIVE SumOfCounts(_)
SumOfCounts(parts) ==
  IF parts = <<>> THEN 0 ELSE Head(parts)[2] + SumOfCounts(Tail(parts))

\* C26: the error summary of a result with failed tests lists every error
\* kind of the failed records once, with the number of failed records of that
\* kind, and the counts add up to failed_tests.
C26_SummaryIsHistogram ==
  (pc = "parsed" /\ test_result.failed_tests > 0) =>
    LET parts == test_result.error_summary.parts
        failed == test_result.failed_test_details
    IN /\ test_result.error_summary.kind = "Failed tests"
       /\ \A i \in 1..Len(failed) : \E j \in 1..Len(parts) : parts[j][1] = failed[i].error_type
       /\ \A j, k \in 1..Len(parts) : parts[j][1] = parts[k][1] => j = k
       /\ \A j \in 1..Len(parts) :
            parts[j][2] = Cardinality({i \in 1..Len(failed) : failed[i].error_type = parts[j][1]})
       /\ SumOfCounts(parts) = test_result.failed_tests

\* three failed records of two kinds
C26_Witness ==
  /\ pc = "parsed"
  /\ test_result.failed_tests = 3
  /\ Len(test_result.error_summary.parts) = 2

\* the highest round of task t that has a code record
LastCodeRound(t) ==
  CHOOSE n \in Rounds :
    /\ \E rec \in CodeOf(t) : rec.round = n
    /\ \A rec \in CodeOf(t) : rec.round <= n

\* C27, as claimed: when the run has ended, mbpp_eval_final.jsonl has, for
\* every task with a persisted code record, exactly one entry, and its
\* completion is the code of the last executed round of the task, whatever
\* the task ids are.
C27_FinalCodeConverted ==
  pc = "done" =>
    \A t \in Tasks :
      CodeOf(t) # {} =>
        LET entries == {i \in 1..Len(mbpp_eval_final) : mbpp_eval_final[i].task_id = t}
        IN /\ Cardinality(entries) = 1
           /\ \A i \in entries :
                \E rec \in CodeOf(t) :
                  /\ rec.round = LastCodeRound(t)
                  /\ mbpp_eval_final[i].completion = rec.generated_code

\* the results record of the last executed round of task t
LastResultsRecord(t) ==
  CHOOSE rec \in ResultsOf(t) : \A other \in ResultsOf(t) : other.round <= rec.round

\* C28, as claimed: the final_success_rate of every final status record is
\* the success_rate of the last execution result of its task (passed_tests /
\* total_tests, 0 when total_tests is 0), for a successful task as for a
\* failed one.
C28_FinalRateIsLastRate ==
  \A i \in 1..Len(final_status) :
    LET t == final_status[i].task_id
    IN /\ ResultsOf(t) # {}
       /\ final_status[i].final_success_rate = LastResultsRecord(t).success_rate
       /\ final_status[i].final_success_rate
            = SuccessRate(LastResultsRecord(t).passed_tests, LastResultsRecord(t).total_tests)

\* C30, as claimed: the total_rounds of every final status record is the
\* highest round number for which its task has persisted round artifacts,
\* whatever the repair rounds did (passed, failed or raised).
C30_TotalRoundsIsLastRound ==
  \A i \in 1..Len(final_status) :
    LET t == final_status[i].task_id
        n == final_status[i].total_rounds
    IN /\ n \in Rounds
       /\ HasArtifact(t, n)
       /\ \A m \in Rounds : HasArtifact(t, m) => m <= n

\* C29, as claimed: while the orchestrator is between the rounds of a task or
\* has finished it, a round has a results record of a task exactly when it
\* has a code record of the task, also when a write raised inside a repair
\* iteration.
C29_ResultsIffCode ==
  pc \in {"repair_loop", "returned", "next_task", "done"} =>
    \A t \in Tasks : \A n \in Rounds :
      (\E rec \in ResultsOf(t) : rec.round = n) <=> (\E rec \in CodeOf(t) : rec.round = n)

====
